---- MODULE Spec2Model ----
(***************************************************************************)
(* System Performance Monitor (src/Main.py): one collection / ranking /    *)
(* recording / rendering loop over the metrics provider (psutil), the CSV  *)
(* log file and the console.                                               *)
(*                                                                         *)
(* Python values that can share a CSV cell or a dict slot are tagged       *)
(* tuples, so that an int, a float, a string and None stay distinct:       *)
(*   <<"int", n>>, <<"float", num, den>>, <<"str", s>>, <<"None">>.        *)
(* A dict is the sequence of its <<key, value>> items in insertion order.  *)
(***************************************************************************)
EXTENDS Integers, Sequences, FiniteSets, TLC

VARIABLES
    host,       \* what the provider reports on this machine (processes, sensors)
    logExists,  \* os.path.exists(LOG_FILE)
    logFile,    \* the rows of LOG_FILE, each a sequence of cells
    pc,         \* position of the interpreter in run_spm
    runs,       \* invocations of the script so far
    cycle,      \* loop iterations started so far
    io_rates,   \* (disk_read_s, disk_write_s, mbps_sent, mbps_recv) of this cycle
    cpu_temp,   \* local cpu_temp of run_spm
    log_data,   \* local log_data of run_spm
    all_procs,  \* local all_procs of run_spm
    top,        \* locals top_cpu, top_mem, top_disk of run_spm
    console,    \* lines on the terminal since the last clear
    outcome,    \* how the current run ended
    raised,     \* the exception that left the last failing step of this run
    calls,      \* per run: calls of setup_csv, of the priming cpu_percent, cycles
                \* that reached the recording step, rows appended by log_to_csv
    arg,        \* argument of the function applied on its own (SpecRank, SpecRates)
    ret         \* its result

vars == <<host, logExists, logFile, pc, runs, cycle, io_rates, cpu_temp, log_data,
          all_procs, top, console, outcome, raised, calls, arg, ret>>

(***************************************************************************)
(* Bounds of the model.                                                    *)
(***************************************************************************)
MaxProcs == 6    \* live processes on the host (one more than TOP_N_PROCESSES)
MaxFaulty == 3   \* longest process table with a process whose read fails
MaxCycles == 2   \* loop iterations over all runs
MaxRuns == 2     \* invocations of the script on the same log file
MaxRankLen == 6  \* snapshots handed to the ranking applied on its own

(***************************************************************************)
(* Configuration.                                                          *)
(***************************************************************************)
TOP_N_PROCESSES == 5

(***************************************************************************)
(* Python values.                                                          *)
(***************************************************************************)
PyInt(n) == <<"int", n>>
PyStr(s) == <<"str", s>>
PyNone == <<"None">>
NA == PyStr("N/A")

RECURSIVE Gcd(_, _)
Gcd(a, b) == IF b = 0 THEN a ELSE Gcd(b, a % b)

Abs(n) == IF n < 0 THEN -n ELSE n

\* The quotient a / b of true division, kept exact as a reduced fraction.
PyTrueDiv(a, b) ==
    LET g == Gcd(Abs(a), b) IN <<"float", a \div g, b \div g>>

Min(a, b) == IF a <= b THEN a ELSE b

\* d.update(items): existing keys keep their place and take the last value given,
\* new keys are appended in the order they first appear
DictUpdate(d, items) ==
    LET At(k) == { j \in 1..Len(items) : items[j][1] = k }
        LastValue(k) == items[CHOOSE j \in At(k) : \A m \in At(k) : m <= j][2]
        Held(k) == \E i \in 1..Len(d) : d[i][1] = k
        First(j) == \A m \in At(items[j][1]) : j <= m
        fresh == SelectSeq([j \in 1..Len(items) |-> j],
                           LAMBDA j : ~Held(items[j][1]) /\ First(j))
    IN [i \in 1..Len(d) |->
            IF At(d[i][1]) # {} THEN <<d[i][1], LastValue(d[i][1])>> ELSE d[i]]
       \o [n \in 1..Len(fresh) |-> <<items[fresh[n]][1], LastValue(items[fresh[n]][1])>>]

Keys(d) == [i \in 1..Len(d) |-> d[i][1]]
DictGet(d, k) == d[CHOOSE i \in 1..Len(d) : d[i][1] = k][2]  \* d[k], k present

RECURSIVE Flatten(_)
Flatten(ss) == IF ss = <<>> THEN <<>> ELSE Head(ss) \o Flatten(Tail(ss))

(***************************************************************************)
(* setup_csv: the header row.                                              *)
(***************************************************************************)
SystemColumns ==
    << "timestamp", "cpu_usage_total", "cpu_usage_per_core", "memory_usage_percent",
       "memory_used", "memory_available", "memory_cached", "disk_usage_percent",
       "disk_io_read_bytes_s", "disk_io_write_bytes_s", "network_io_sent_mbps",
       "network_io_recv_mbps", "system_uptime_seconds", "system_temp_celsius" >>

Categories == << "cpu", "memory", "disk_io" >>

\* f'top_{category}_{i}_...'
TopKey(category, i, field) ==
    "top_" \o category \o "_" \o ToString(i) \o "_" \o field

\* mutant of HeaderSlot: the name column ahead of the pid column
HeaderSlotNameFirst(category, i) ==
    << TopKey(category, i, "name"), TopKey(category, i, "pid"),
       TopKey(category, i, "cpu_percent"), TopKey(category, i, "mem_rss"),
       TopKey(category, i, "mem_vms"), TopKey(category, i, "disk_read_bytes"),
       TopKey(category, i, "disk_write_bytes"), TopKey(category, i, "execution_time_s") >>

HeaderSlot(category, i) ==
    << TopKey(category, i, "pid"), TopKey(category, i, "name"),
       TopKey(category, i, "cpu_percent"), TopKey(category, i, "mem_rss"),
       TopKey(category, i, "mem_vms"), TopKey(category, i, "disk_read_bytes"),
       TopKey(category, i, "disk_write_bytes"), TopKey(category, i, "execution_time_s") >>

\* header.extend(...) for category in [...] for i in range(1, TOP_N_PROCESSES + 1)
HeaderExtension ==
    Flatten([c \in 1..Len(Categories) |->
        Flatten([i \in 1..TOP_N_PROCESSES |-> HeaderSlot(Categories[c], i)])])

header == SystemColumns \o HeaderExtension

(***************************************************************************)
(* The host, as the provider reports it.  A process table is the sequence  *)
(* of what reading each live process gives, in enumeration order; the pid  *)
(* of the i-th process is i.                                               *)
(***************************************************************************)
ReadKinds ==
    { "ok",
      "NoSuchProcess", "AccessDenied", "ZombieProcess",   \* raised by the read
      "memory_info_None", "io_counters_None", "create_time_None" } \* ad_value fields

\* every table of readable processes, and the shorter tables with one process
\* whose read fails
ProcessTables ==
    { [i \in 1..n |-> "ok"] : n \in 0..MaxProcs }
    \cup UNION { { [i \in 1..n |-> IF i = j THEN k ELSE "ok"] :
                     j \in 1..n, k \in ReadKinds \ {"ok"} } : n \in 1..MaxFaulty }

Reading(t) == [shape |-> "shwtemp", current |-> <<"float", t, 1>>]

\* psutil.sensors_temperatures(): absent on some platforms, else groups in order.
SensorOptions ==
    { [supported |-> FALSE, groups |-> <<>>],
      [supported |-> TRUE, groups |-> <<>>],
      [supported |-> TRUE, groups |-> << <<"acpitz", <<Reading(38)>> >> >>],
      [supported |-> TRUE, groups |-> << <<"coretemp", <<Reading(45), Reading(47)>> >> >>],
      [supported |-> TRUE, groups |-> << <<"acpitz", <<Reading(38)>> >>,
                                         <<"coretemp", <<Reading(45)>> >> >>],
      [supported |-> TRUE, groups |-> << <<"coretemp", <<Reading(45)>> >>,
                                         <<"acpitz", <<Reading(38)>> >> >>] }

DefaultSensors == [supported |-> TRUE, groups |-> << <<"acpitz", <<Reading(38)>> >> >>]
DefaultProcs == << "ok", "ok" >>

Hosts ==
    { [procs |-> t, sensors |-> DefaultSensors] : t \in ProcessTables }
    \cup { [procs |-> DefaultProcs, sensors |-> s] : s \in SensorOptions }

\* time.time() and psutil.boot_time(), in seconds
HostNow == 100000
HostBoot == 40000

\* proc.info of the pid-th process when its read gives `kind`
PInfo(pid, kind) ==
    [ pid |-> pid,
      name |-> "proc" \o ToString(pid),
      cpu_percent |-> 10 * (pid % 3),
      memory_info |-> IF kind = "memory_info_None" THEN PyNone
                      ELSE <<"pmem", 4096 * (1 + ((pid * 3) % 4)), 8192 * (1 + ((pid * 3) % 4))>>,
      io_counters |-> IF kind = "io_counters_None" THEN PyNone
                      ELSE <<"pio", 1000 * (pid % 2), 512 * (pid % 3)>>,
      create_time |-> IF kind = "create_time_None" THEN PyNone
                      ELSE PyInt(HostNow - (60 * pid)) ]

\* LOG_FILE before the first run: absent, empty, or holding somebody else's row
ForeignRow == << "time", "load" >>
InitialLogs ==
    { [exists |-> FALSE, rows |-> <<>>],
      [exists |-> TRUE, rows |-> <<>>],
      [exists |-> TRUE, rows |-> << ForeignRow >>] }

\* every host with no log yet, and every initial log on the default host
DefaultHost == [procs |-> DefaultProcs, sensors |-> DefaultSensors]
Machines ==
    { [host |-> h, log |-> [exists |-> FALSE, rows |-> <<>>]] : h \in Hosts }
    \cup { [host |-> DefaultHost, log |-> f] : f \in InitialLogs }

NoRates == [disk_read_s |-> 0, disk_write_s |-> 0,
            mbps_sent |-> <<"float", 0, 1>>, mbps_recv |-> <<"float", 0, 1>>]
NoTop == [cpu |-> <<>>, mem |-> <<>>, disk |-> <<>>]
NoCalls == [setup_csv |-> 0, prime |-> 0, recording |-> 0, rows |-> 0]
NoException == [type |-> "none", at |-> "none"]

Init ==
    /\ \E m \in Machines :
          host = m.host /\ logExists = m.log.exists /\ logFile = m.log.rows
    /\ pc = "idle"
    /\ runs = 0
    /\ cycle = 0
    /\ io_rates = NoRates
    /\ cpu_temp = PyNone
    /\ log_data = <<>>
    /\ all_procs = <<>>
    /\ top = NoTop
    /\ console = <<>>
    /\ outcome = "none"
    /\ raised = NoException
    /\ calls = NoCalls
    /\ arg = <<>>
    /\ ret = <<>>

locals == <<io_rates, cpu_temp, log_data, all_procs, top>>

(***************************************************************************)
(* if __name__ == "__main__": run_spm()                                    *)
(***************************************************************************)
main ==
    /\ pc \in {"idle", "exited"}
    /\ runs < MaxRuns
    /\ runs' = runs + 1
    /\ pc' = "setup_csv"
    /\ outcome' = "none"
    /\ raised' = NoException
    /\ calls' = NoCalls
    /\ console' = <<>>
    /\ UNCHANGED <<host, logExists, logFile, cycle, locals, arg, ret>>

\* mutant of setup_csv_file: the header is written without the existence test
setup_csv_file_always(exists, rows) == << header >>

\* if not os.path.exists(LOG_FILE): open(LOG_FILE, 'w') ... writer.writerow(header)
setup_csv_file(exists, rows) ==
    IF ~exists THEN << header >> ELSE rows

setup_csv ==
    /\ pc = "setup_csv"
    /\ logFile' = setup_csv_file(logExists, logFile)
    /\ logExists' = TRUE
    /\ calls' = [calls EXCEPT !.setup_csv = @ + 1]
    /\ pc' = "prime"
    /\ UNCHANGED <<host, runs, cycle, locals, console, outcome, raised, arg, ret>>

\* psutil.cpu_percent(interval=None): the baseline call, result discarded
prime ==
    /\ pc = "prime"
    /\ calls' = [calls EXCEPT !.prime = @ + 1]
    /\ pc' = "loop"
    /\ UNCHANGED <<host, logExists, logFile, runs, cycle, locals, console, outcome,
                   raised, arg, ret>>

(***************************************************************************)
(* get_io_rates: counters before and after the one-second window.          *)
(***************************************************************************)
\* mutant of get_io_rates: bytes, not bits, per microsecond
get_io_rates_bytes(last_disk, last_net, new_disk, new_net) ==
    [ disk_read_s |-> new_disk.read_bytes - last_disk.read_bytes,
      disk_write_s |-> new_disk.write_bytes - last_disk.write_bytes,
      mbps_sent |-> PyTrueDiv(new_net.bytes_sent - last_net.bytes_sent, 1000000),
      mbps_recv |-> PyTrueDiv(new_net.bytes_recv - last_net.bytes_recv, 1000000) ]

get_io_rates(last_disk, last_net, new_disk, new_net) ==
    LET disk_read_s == new_disk.read_bytes - last_disk.read_bytes
        disk_write_s == new_disk.write_bytes - last_disk.write_bytes
        bytes_sent_s == new_net.bytes_sent - last_net.bytes_sent
        bytes_recv_s == new_net.bytes_recv - last_net.bytes_recv
    IN [ disk_read_s |-> disk_read_s,
         disk_write_s |-> disk_write_s,
         mbps_sent |-> PyTrueDiv(bytes_sent_s * 8, 1000000),
         mbps_recv |-> PyTrueDiv(bytes_recv_s * 8, 1000000) ]

\* the counters the host shows around the window of a cycle
HostTraffic ==
    [ last_disk |-> [read_bytes |-> 100, write_bytes |-> 50],
      new_disk |-> [read_bytes |-> 180, write_bytes |-> 95],
      last_net |-> [bytes_sent |-> 4000, bytes_recv |-> 9000],
      new_net |-> [bytes_sent |-> 129000, bytes_recv |-> 259000] ]

\* what cpu_percent, virtual_memory, disk_usage and the clock give in a cycle
HostSystem ==
    [ timestamp |-> "t" \o ToString(HostNow),
      cpu_total |-> 25,
      cpu_per_core |-> <<20, 30>>,
      mem_percent |-> 50,
      mem_used |-> 1536,
      mem_available |-> 2048,
      mem_cached |-> 512,
      mem_total |-> 4096,
      disk_percent |-> 70,
      uptime |-> HostNow - HostBoot ]

TryPcs == { "loop", "get_io_rates", "temperature", "populate", "processes", "rank",
            "flatten", "log_to_csv", "render", "sleep" }
EntryPcs == { "setup_csv", "prime" }

(***************************************************************************)
(* Leaving run_spm on an exception: the two handlers of the try statement  *)
(* around the loop, or no handler at all before the loop is entered.       *)
(***************************************************************************)
Farewell == << "message", "SPM stopped by user. Exiting." >>
ErrorMessage(type) == << "message", "An error occurred: " \o type >>
Traceback(type) == << "traceback", type >>

\* mutant of HandlerOutput: one handler for everything raised inside the loop
HandlerOutputGeneric(type, at) ==
    IF at \in TryPcs THEN ErrorMessage(type) ELSE Traceback(type)

\* the line the handlers print for an exception of `type` raised at position `at`
HandlerOutput(type, at) ==
    IF at \in TryPcs
    THEN IF type = "KeyboardInterrupt" THEN Farewell ELSE ErrorMessage(type)
    ELSE Traceback(type)

HandlerOutcome(type, at) ==
    IF at \in TryPcs
    THEN IF type = "KeyboardInterrupt" THEN "stopped" ELSE "error"
    ELSE "uncaught"

\* mutant of AfterHandler: a failure is swallowed and the loop goes on
AfterHandlerRetry(type, at) ==
    IF at \in TryPcs /\ type # "KeyboardInterrupt" THEN "loop" ELSE "exited"

\* after the handler the function returns: the loop is not re-entered
AfterHandler(type, at) == "exited"

Propagate(type) ==
    /\ raised' = [type |-> type, at |-> pc]
    /\ console' = Append(console, HandlerOutput(type, pc))
    /\ outcome' = HandlerOutcome(type, pc)
    /\ pc' = AfterHandler(type, pc)
    /\ io_rates' = NoRates
    /\ cpu_temp' = PyNone
    /\ log_data' = <<>>
    /\ all_procs' = <<>>
    /\ top' = NoTop
    /\ UNCHANGED <<host, logExists, logFile, runs, cycle, calls, arg, ret>>

\* Ctrl-C while the interpreter is anywhere in run_spm
KeyboardInterrupt ==
    /\ pc \in TryPcs \cup EntryPcs
    /\ Propagate("KeyboardInterrupt")

\* a call of the step at hand raises (OSError from the file or the provider)
UnexpectedFailure ==
    /\ pc \in TryPcs \cup EntryPcs
    /\ Propagate("OSError")

\* while True: log_data = {}
loop ==
    /\ pc = "loop"
    /\ cycle < MaxCycles
    /\ cycle' = cycle + 1
    /\ log_data' = <<>>
    /\ pc' = "get_io_rates"
    /\ UNCHANGED <<host, logExists, logFile, runs, io_rates, cpu_temp, all_procs, top,
                   console, outcome, raised, calls, arg, ret>>

collect_io_rates ==
    /\ pc = "get_io_rates"
    /\ io_rates' = get_io_rates(HostTraffic.last_disk, HostTraffic.last_net,
                                HostTraffic.new_disk, HostTraffic.new_net)
    /\ pc' = "temperature"
    /\ UNCHANGED <<host, logExists, logFile, runs, cycle, cpu_temp, log_data, all_procs,
                   top, console, outcome, raised, calls, arg, ret>>

(***************************************************************************)
(* The temperature lookup, lines 115-124.  Each sub-expression either      *)
(* gives a value or raises; the except clause turns the three listed       *)
(* exceptions into 'N/A'.                                                  *)
(***************************************************************************)
Group(groups, name) ==
    LET hits == SelectSeq(groups, LAMBDA g : g[1] = name)
    IN IF hits = <<>> THEN <<>> ELSE << hits[1][2] >>

\* temps.get('coretemp', [{}])[0].get('current', 'N/A')
CoretempLookup(groups) ==
    LET found == Group(groups, "coretemp")
    IN IF found = <<>>
       THEN [exc |-> "none", value |-> NA]                   \* {}.get('current', 'N/A')
       ELSE IF found[1] = <<>>
            THEN [exc |-> "IndexError", value |-> PyNone]    \* [][0]
            ELSE IF found[1][1].shape = "dict"
                 THEN [exc |-> "none", value |-> found[1][1].current]
                 ELSE [exc |-> "AttributeError", value |-> PyNone]  \* tuple has no .get

\* list(temps.values())[0][0].current
FirstSensorLookup(groups) ==
    IF groups[1][2] = <<>>
    THEN [exc |-> "IndexError", value |-> PyNone]
    ELSE IF groups[1][2][1].shape = "dict"
         THEN [exc |-> "AttributeError", value |-> PyNone]   \* dict has no .current
         ELSE [exc |-> "none", value |-> groups[1][2][1].current]

TemperatureCaught == { "AttributeError", "IndexError", "KeyError" }

temperature_lookup(sensors) ==
    LET tried ==
            IF ~sensors.supported
            THEN [exc |-> "AttributeError", value |-> PyNone] \* no sensors_temperatures
            ELSE LET first == CoretempLookup(sensors.groups)
                 IN IF first.exc = "none" /\ first.value = NA /\ sensors.groups # <<>>
                    THEN FirstSensorLookup(sensors.groups)
                    ELSE first
    IN IF tried.exc \in TemperatureCaught
       THEN [exc |-> "none", value |-> NA]
       ELSE tried

temperature ==
    /\ pc = "temperature"
    /\ LET got == temperature_lookup(host.sensors)
       IN IF got.exc = "none"
          THEN /\ cpu_temp' = got.value
               /\ pc' = "populate"
               /\ UNCHANGED <<host, logExists, logFile, runs, cycle, io_rates, log_data,
                              all_procs, top, console, outcome, raised, calls, arg, ret>>
          ELSE Propagate(got.exc)

RECURSIVE Join(_)
Join(ns) ==
    IF ns = <<>> THEN ""
    ELSE IF Len(ns) = 1 THEN ToString(ns[1])
    ELSE ToString(ns[1]) \o "," \o Join(Tail(ns))

\* log_data.update({...}), lines 127-137
SystemItems(rates, temp) ==
    << <<"timestamp", PyStr(HostSystem.timestamp)>>,
       <<"cpu_usage_total", PyInt(HostSystem.cpu_total)>>,
       <<"cpu_usage_per_core", PyStr(Join(HostSystem.cpu_per_core))>>,
       <<"memory_usage_percent", PyInt(HostSystem.mem_percent)>>,
       <<"memory_used", PyInt(HostSystem.mem_used)>>,
       <<"memory_available", PyInt(HostSystem.mem_available)>>,
       <<"memory_cached", PyInt(HostSystem.mem_cached)>>,
       <<"disk_usage_percent", PyInt(HostSystem.disk_percent)>>,
       <<"disk_io_read_bytes_s", PyInt(rates.disk_read_s)>>,
       <<"disk_io_write_bytes_s", PyInt(rates.disk_write_s)>>,
       <<"network_io_sent_mbps", rates.mbps_sent>>,
       <<"network_io_recv_mbps", rates.mbps_recv>>,
       <<"system_uptime_seconds", PyInt(HostSystem.uptime)>>,
       <<"system_temp_celsius", temp>> >>

populate ==
    /\ pc = "populate"
    /\ log_data' = DictUpdate(log_data, SystemItems(io_rates, cpu_temp))
    /\ pc' = "processes"
    /\ UNCHANGED <<host, logExists, logFile, runs, cycle, io_rates, cpu_temp, all_procs,
                   top, console, outcome, raised, calls, arg, ret>>

(***************************************************************************)
(* get_all_processes_info                                                  *)
(***************************************************************************)
\* what building the dict of lines 76-90 raises for one process
ReadRaises(kind) ==
    CASE kind \in {"NoSuchProcess", "AccessDenied", "ZombieProcess"} -> kind
      [] kind = "memory_info_None" -> "AttributeError"   \* None.rss, line 84
      [] kind = "create_time_None" -> "TypeError"        \* float - None, line 89
      [] OTHER -> "none"

ProcessCaught == { "NoSuchProcess", "AccessDenied", "ZombieProcess" }

Snapshot(pinfo) ==
    LET io == pinfo.io_counters
        disk_io_total == IF io # PyNone THEN io[2] + io[3] ELSE 0
    IN [ pid |-> pinfo.pid,
         name |-> pinfo.name,
         cpu_percent |-> pinfo.cpu_percent,
         mem_rss |-> pinfo.memory_info[2],
         mem_vms |-> pinfo.memory_info[3],
         disk_read_bytes |-> IF io # PyNone THEN io[2] ELSE 0,
         disk_write_bytes |-> IF io # PyNone THEN io[3] ELSE 0,
         disk_io_total |-> disk_io_total,
         execution_time_s |-> HostNow - pinfo.create_time[2] ]

RECURSIVE ProcessIter(_, _, _)
ProcessIter(table, i, processes) ==
    IF i > Len(table) THEN [exc |-> "none", processes |-> processes]
    ELSE LET exc == ReadRaises(table[i])
         IN IF exc = "none"
            THEN ProcessIter(table, i + 1, Append(processes, Snapshot(PInfo(i, table[i]))))
            ELSE IF exc \in ProcessCaught
                 THEN ProcessIter(table, i + 1, processes)           \* pass
                 ELSE [exc |-> exc, processes |-> <<>>]

get_all_processes_info(table) == ProcessIter(table, 1, <<>>)

processes ==
    /\ pc = "processes"
    /\ LET got == get_all_processes_info(host.procs)
       IN IF got.exc = "none"
          THEN /\ all_procs' = got.processes
               /\ pc' = "rank"
               /\ UNCHANGED <<host, logExists, logFile, runs, cycle, io_rates, cpu_temp,
                              log_data, top, console, outcome, raised, calls, arg, ret>>
          ELSE Propagate(got.exc)

(***************************************************************************)
(* sorted(all_procs, key=..., reverse=True)[:TOP_N_PROCESSES]              *)
(***************************************************************************)
KeyOf(p, key) ==
    CASE key = "cpu_percent" -> p.cpu_percent
      [] key = "mem_rss" -> p.mem_rss
      [] key = "disk_io_total" -> p.disk_io_total

\* mutant of InsertDescending: p goes ahead of the elements with an equal key
InsertBeforeEqual(ps, p, key) ==
    LET k == Cardinality({ j \in 1..Len(ps) : KeyOf(ps[j], key) > KeyOf(p, key) })
    IN SubSeq(ps, 1, k) \o << p >> \o SubSeq(ps, k + 1, Len(ps))

\* where a stable descending sort puts p among the already sorted ps:
\* after every element whose key is not smaller
InsertDescending(ps, p, key) ==
    LET k == Cardinality({ j \in 1..Len(ps) : KeyOf(ps[j], key) >= KeyOf(p, key) })
    IN SubSeq(ps, 1, k) \o << p >> \o SubSeq(ps, k + 1, Len(ps))

RECURSIVE SortedDescending(_, _)
SortedDescending(ps, key) ==
    IF ps = <<>> THEN <<>>
    ELSE InsertDescending(SortedDescending(SubSeq(ps, 1, Len(ps) - 1), key),
                          ps[Len(ps)], key)

Slice(ps, n) == SubSeq(ps, 1, Min(n, Len(ps)))

TopBy(ps, key, n) == Slice(SortedDescending(ps, key), n)

Ranking(ps, n) ==
    [ cpu |-> TopBy(ps, "cpu_percent", n),
      mem |-> TopBy(ps, "mem_rss", n),
      disk |-> TopBy(ps, "disk_io_total", n) ]

rank ==
    /\ pc = "rank"
    /\ top' = Ranking(all_procs, TOP_N_PROCESSES)
    /\ pc' = "flatten"
    /\ calls' = [calls EXCEPT !.recording = @ + 1]
    /\ UNCHANGED <<host, logExists, logFile, runs, cycle, io_rates, cpu_temp, log_data,
                   all_procs, console, outcome, raised, arg, ret>>

(***************************************************************************)
(* Flattening the three selections into log_data, lines 147-157.           *)
(***************************************************************************)
\* mutant of ProcGet: an unfilled slot is left blank
ProcGetBlank(data, i, field) ==
    IF i < Len(data)
    THEN LET p == data[i + 1]
         IN CASE field = "pid" -> PyInt(p.pid)
              [] field = "name" -> PyStr(p.name)
              [] field = "cpu_percent" -> PyInt(p.cpu_percent)
              [] field = "mem_rss" -> PyInt(p.mem_rss)
              [] field = "mem_vms" -> PyInt(p.mem_vms)
              [] field = "disk_read_bytes" -> PyInt(p.disk_read_bytes)
              [] field = "disk_write_bytes" -> PyInt(p.disk_write_bytes)
              [] field = "execution_time_s" -> PyInt(p.execution_time_s)
    ELSE PyStr("")

\* proc_data.get(field, 'N/A') with proc_data = data[i] if i < len(data) else {}
ProcGet(data, i, field) ==
    IF i < Len(data)
    THEN LET p == data[i + 1]
         IN CASE field = "pid" -> PyInt(p.pid)
              [] field = "name" -> PyStr(p.name)
              [] field = "cpu_percent" -> PyInt(p.cpu_percent)
              [] field = "mem_rss" -> PyInt(p.mem_rss)
              [] field = "mem_vms" -> PyInt(p.mem_vms)
              [] field = "disk_read_bytes" -> PyInt(p.disk_read_bytes)
              [] field = "disk_write_bytes" -> PyInt(p.disk_write_bytes)
              [] field = "execution_time_s" -> PyInt(p.execution_time_s)
    ELSE NA

SlotItem(category, data, i, field) ==
    << TopKey(category, i + 1, field), ProcGet(data, i, field) >>

SlotItems(category, data, i) ==
    << SlotItem(category, data, i, "pid"),
       SlotItem(category, data, i, "name"),
       SlotItem(category, data, i, "cpu_percent"),
       SlotItem(category, data, i, "mem_rss"),
       SlotItem(category, data, i, "mem_vms"),
       SlotItem(category, data, i, "disk_read_bytes"),
       SlotItem(category, data, i, "disk_write_bytes"),
       SlotItem(category, data, i, "execution_time_s") >>

\* for i in range(TOP_N_PROCESSES)
CategoryItems(category, data) ==
    Flatten([j \in 1..TOP_N_PROCESSES |-> SlotItems(category, data, j - 1)])

FlattenItems(t) ==
    CategoryItems("cpu", t.cpu) \o CategoryItems("memory", t.mem)
        \o CategoryItems("disk_io", t.disk)

flatten ==
    /\ pc = "flatten"
    /\ log_data' = DictUpdate(log_data, FlattenItems(top))
    /\ pc' = "log_to_csv"
    /\ UNCHANGED <<host, logExists, logFile, runs, cycle, io_rates, cpu_temp, all_procs,
                   top, console, outcome, raised, calls, arg, ret>>

(***************************************************************************)
(* log_to_csv: csv.DictWriter(f, fieldnames=data.keys()).writerow(data)    *)
(***************************************************************************)
DictRow(data, fieldnames) ==
    [i \in 1..Len(fieldnames) |-> DictGet(data, fieldnames[i])]

\* mutant of log_to_csv_file: the field names are written ahead of every row
log_to_csv_file_with_header(rows, data) ==
    rows \o << Keys(data), DictRow(data, Keys(data)) >>

log_to_csv_file(rows, data) == Append(rows, DictRow(data, Keys(data)))

log_to_csv ==
    /\ pc = "log_to_csv"
    /\ logFile' = log_to_csv_file(logFile, log_data)
    /\ logExists' = TRUE
    /\ calls' = [calls EXCEPT !.rows = @ + 1]
    /\ pc' = "render"
    /\ UNCHANGED <<host, runs, cycle, locals, console, outcome, raised, arg, ret>>

(***************************************************************************)
(* The console refresh, lines 163-182.                                     *)
(***************************************************************************)
LOG_FILE == "system_performance_log.csv"

TwoDigits(n) == IF n < 10 THEN "0" \o ToString(n) ELSE ToString(n)

\* f"{x:.2f}" of x = num / den (den > 0): the nearest hundredth, ties to even
Fmt2(num, den) ==
    LET a == Abs(num) * 100
        h0 == a \div den
        r == a % den
        h == IF 2 * r > den THEN h0 + 1
             ELSE IF 2 * r = den THEN h0 + (h0 % 2)
             ELSE h0
    IN (IF num < 0 THEN "-" ELSE "") \o ToString(h \div 100) \o "." \o TwoDigits(h % 100)

Units == << "", "K", "M", "G", "T", "P" >>

RECURSIVE SizeLoop(_, _, _, _)
SizeLoop(num, den, u, suffix) ==
    IF u > Len(Units) THEN Fmt2(num, den) \o "P" \o suffix
    ELSE IF num < 1024 * den THEN Fmt2(num, den) \o Units[u] \o suffix
    ELSE SizeLoop(num, den * 1024, u + 1, suffix)

get_size(bytes) == SizeLoop(bytes, 1, 1, "B")

\* str() of a value interpolated into an f-string
PyFormat(v) ==
    CASE v[1] = "str" -> v[2]
      [] v[1] = "int" -> ToString(v[2])
      [] v[1] = "float" -> Fmt2(v[2], v[3])
      [] OTHER -> "None"

CpuUsage(p) == Fmt2(p.cpu_percent, 1) \o "%"
MemUsage(p) == get_size(p.mem_rss)
DiskUsage(p) == get_size(p.disk_io_total)

\* the line printed for one process under the heading of `category`
TaskLine(category, p) ==
    << "task", category, ToString(p.pid), p.name,
       CASE category = "cpu" -> CpuUsage(p)
         [] category = "memory" -> MemUsage(p)
         [] category = "disk_io" -> DiskUsage(p) >>

\* for p in top_...: print(...)
TaskLines(category, data) ==
    [i \in 1..Len(data) |-> TaskLine(category, data[i])]

Screen(data, temp, rates, t) ==
    << << "title", "--- System Performance Monitor --- (Logging to " \o LOG_FILE \o ")" >>,
       << "timestamp", PyFormat(DictGet(data, "timestamp")), ToString(HostBoot) >>,
       << "cpu", ToString(HostSystem.cpu_total), Join(HostSystem.cpu_per_core),
          PyFormat(temp) \o "C" >>,
       << "heading", "Top CPU Consuming Tasks:" >> >>
    \o TaskLines("cpu", t.cpu)
    \o << << "memory", ToString(HostSystem.mem_percent), get_size(HostSystem.mem_used),
             get_size(HostSystem.mem_total) >>,
          << "heading", "Top Memory Consuming Tasks (RSS):" >> >>
    \o TaskLines("memory", t.mem)
    \o << << "disk", ToString(HostSystem.disk_percent), get_size(rates.disk_read_s) \o "/s",
             get_size(rates.disk_write_s) \o "/s" >>,
          << "heading", "Top Disk I/O Tasks:" >> >>
    \o TaskLines("disk_io", t.disk)
    \o << << "network", Fmt2(rates.mbps_sent[2], rates.mbps_sent[3]) \o " Mbps",
             Fmt2(rates.mbps_recv[2], rates.mbps_recv[3]) \o " Mbps" >> >>

\* os.system('clear') and the prints
render ==
    /\ pc = "render"
    /\ console' = Screen(log_data, cpu_temp, io_rates, top)
    /\ pc' = "sleep"
    /\ UNCHANGED <<host, logExists, logFile, runs, cycle, locals, outcome, raised,
                   calls, arg, ret>>

\* time.sleep(max(0, LOG_INTERVAL_SECONDS - 1)), then the next iteration
sleep ==
    /\ pc = "sleep"
    /\ pc' = "loop"
    /\ UNCHANGED <<host, logExists, logFile, runs, cycle, locals, console, outcome,
                   raised, calls, arg, ret>>

Next ==
    \/ main
    \/ setup_csv
    \/ prime
    \/ loop
    \/ collect_io_rates
    \/ temperature
    \/ populate
    \/ processes
    \/ rank
    \/ flatten
    \/ log_to_csv
    \/ render
    \/ sleep
    \/ KeyboardInterrupt
    \/ UnexpectedFailure

Spec == Init /\ [][Next]_vars

(***************************************************************************)
(* The ranking applied on its own to bounded snapshot sequences, with the  *)
(* slice length n as an input.                                             *)
(***************************************************************************)
Profiles ==
    { [cpu_percent |-> 10, mem_rss |-> 4096, disk_io_total |-> 0],
      [cpu_percent |-> 55, mem_rss |-> 4096, disk_io_total |-> 700],
      [cpu_percent |-> 2, mem_rss |-> 8192, disk_io_total |-> 700],
      [cpu_percent |-> 30, mem_rss |-> 1024, disk_io_total |-> 50] }

SnapshotOf(pid, profile) ==
    [ pid |-> pid, cpu_percent |-> profile.cpu_percent, mem_rss |-> profile.mem_rss,
      disk_io_total |-> profile.disk_io_total ]

SnapshotSequences ==
    UNION { { [i \in 1..len |-> SnapshotOf(i, f[i])] : f \in [1..len -> Profiles] } :
            len \in 0..MaxRankLen }

RankSizes == { 3, TOP_N_PROCESSES }

InitRank ==
    /\ all_procs \in SnapshotSequences
    /\ \E n \in RankSizes : arg = [n |-> n, procs |-> all_procs]
    /\ pc = "rank_call"
    /\ host = [procs |-> <<>>, sensors |-> DefaultSensors]
    /\ logExists = FALSE
    /\ logFile = <<>>
    /\ runs = 0
    /\ cycle = 0
    /\ io_rates = NoRates
    /\ cpu_temp = PyNone
    /\ log_data = <<>>
    /\ top = NoTop
    /\ console = <<>>
    /\ outcome = "none"
    /\ raised = NoException
    /\ calls = NoCalls
    /\ ret = <<>>

rank_apply ==
    /\ pc = "rank_call"
    /\ top' = Ranking(all_procs, arg.n)
    /\ pc' = "rank_return"
    /\ UNCHANGED <<host, logExists, logFile, runs, cycle, io_rates, cpu_temp, log_data,
                   all_procs, console, outcome, raised, calls, arg, ret>>

NextRank == rank_apply

SpecRank == InitRank /\ [][NextRank]_vars

(***************************************************************************)
(* get_io_rates applied on its own to bounded counter snapshots.           *)
(***************************************************************************)
DiskSnapshots == [read_bytes : {100, 180}, write_bytes : {50, 95}]
NetSnapshots == [bytes_sent : {0, 1000, 125000}, bytes_recv : {0, 1000, 250000}]

InitRates ==
    /\ arg \in [last_disk : DiskSnapshots, new_disk : DiskSnapshots,
                last_net : NetSnapshots, new_net : NetSnapshots]
    /\ pc = "rates_call"
    /\ host = [procs |-> <<>>, sensors |-> DefaultSensors]
    /\ logExists = FALSE
    /\ logFile = <<>>
    /\ runs = 0
    /\ cycle = 0
    /\ io_rates = NoRates
    /\ cpu_temp = PyNone
    /\ log_data = <<>>
    /\ all_procs = <<>>
    /\ top = NoTop
    /\ console = <<>>
    /\ outcome = "none"
    /\ raised = NoException
    /\ calls = NoCalls
    /\ ret = <<>>

rates_apply ==
    /\ pc = "rates_call"
    /\ io_rates' = get_io_rates(arg.last_disk, arg.last_net, arg.new_disk, arg.new_net)
    /\ pc' = "rates_return"
    /\ UNCHANGED <<host, logExists, logFile, runs, cycle, cpu_temp, log_data, all_procs,
                   top, console, outcome, raised, calls, arg, ret>>

NextRates == rates_apply

SpecRates == InitRates /\ [][NextRates]_vars

(***************************************************************************)
(* Properties.                                                             *)
(***************************************************************************)
ProcessFields ==
    << "pid", "name", "cpu_percent", "mem_rss", "mem_vms", "disk_read_bytes",
       "disk_write_bytes", "execution_time_s" >>

\* index of the column of field f of rank i of the c-th category
SlotIndex(c, i, f) ==
    Len(SystemColumns) + (((c - 1) * TOP_N_PROCESSES + (i - 1)) * Len(ProcessFields)) + f

\* the row that the cycle at hand has handed to log_to_csv
Recorded == pc \in { "render", "sleep" }
LastRow == logFile[Len(logFile)]

\* C1: in a log whose first row is the header written by setup_csv, the keys of
\* every row handed to log_to_csv are the header's columns, in the header's order:
\* the 14 system columns, then per category cpu, memory, disk_io and rank 1..N the
\* 8 per-process columns; every appended row is as wide as the header.
C1_SchemaStable ==
    (pc \in { "log_to_csv", "render", "sleep" } /\ logFile # <<>> /\ logFile[1] = header)
    => /\ Keys(log_data) = logFile[1]
       /\ Len(logFile[1]) = 14 + (3 * TOP_N_PROCESSES * 8)
       /\ \A k \in 1..14 : Keys(log_data)[k] = SystemColumns[k]
       /\ \A c \in 1..3 : \A i \in 1..TOP_N_PROCESSES : \A f \in 1..8 :
            Keys(log_data)[SlotIndex(c, i, f)]
                = TopKey(Categories[c], i, ProcessFields[f])
       /\ \A r \in 2..Len(logFile) : Len(logFile[r]) = Len(logFile[1])

C1_Witness ==
    /\ pc = "sleep"
    /\ cycle = MaxCycles
    /\ Len(logFile) = MaxCycles + 1
    /\ logFile[1] = header
    /\ Keys(log_data) = logFile[1]

\* C2: setup_csv leaves an existing log as it is, whatever it holds, on every
\* call; it writes the header row, and only that, when the log does not exist.
C2_SetupIdempotent ==
    [][ (pc = "setup_csv" /\ pc' = "prime")
        => /\ logExists'
           /\ IF logExists THEN logFile' = logFile ELSE logFile' = << header >> ]_vars

C2_Witness ==
    /\ pc = "prime"
    /\ runs = 2
    /\ Len(logFile) >= 2
    /\ logFile[1] = header

\* the selection of the c-th category
Selection(c) == IF c = 1 THEN top.cpu ELSE IF c = 2 THEN top.mem ELSE top.disk

\* the task lines the screen shows under the c-th category
DisplayedTasks(c) ==
    SelectSeq(console, LAMBDA l : l[1] = "task" /\ l[2] = Categories[c])

\* rank i of the c-th category holds a process in the recorded row
Populated(c, i) == LastRow[SlotIndex(c, i, 1)] # NA

\* every one of the 8 cells of rank i of the c-th category is 'N/A'
SentinelSlot(c, i) == \A f \in 1..8 : LastRow[SlotIndex(c, i, f)] = NA

\* C3 as stated: after a completed cycle each category has at most N populated
\* ranks, and every unfilled rank shows 'N/A' both in the appended row and on the
\* console (a task line for that rank whose fields read N/A).
C3_AsStated ==
    Recorded =>
        \A c \in 1..3 :
            /\ Cardinality({ i \in 1..TOP_N_PROCESSES : Populated(c, i) }) <= TOP_N_PROCESSES
            /\ \A i \in 1..TOP_N_PROCESSES :
                 ~Populated(c, i) =>
                    /\ SentinelSlot(c, i)
                    /\ (pc = "sleep" =>
                          /\ Len(DisplayedTasks(c)) >= i
                          /\ DisplayedTasks(c)[i][3] = "N/A")

\* C3 amended: after a completed cycle, with any number of live processes, each
\* category has min(N, live) <= N populated ranks, filled from rank 1 upwards;
\* every unfilled rank is 'N/A' in all 8 cells of the appended row; the console
\* shows one task line per populated rank and no line at all for an unfilled one.
C3_SentinelInRowOnly ==
    Recorded =>
        \A c \in 1..3 :
            /\ Len(Selection(c)) = Min(TOP_N_PROCESSES, Len(all_procs))
            /\ \A i \in 1..TOP_N_PROCESSES :
                 IF i <= Len(Selection(c))
                 THEN /\ Populated(c, i)
                      /\ LastRow[SlotIndex(c, i, 1)] = PyInt(Selection(c)[i].pid)
                 ELSE SentinelSlot(c, i)
            /\ (pc = "sleep" =>
                  /\ Len(DisplayedTasks(c)) = Len(Selection(c))
                  /\ \A i \in 1..Len(DisplayedTasks(c)) :
                       DisplayedTasks(c)[i][3] = ToString(Selection(c)[i].pid))

C3_Witness ==
    /\ pc = "sleep"
    /\ Len(all_procs) = 2
    /\ SentinelSlot(1, 3)
    /\ Len(DisplayedTasks(1)) = 2

\* rank of the j-th snapshot under a descending order that keeps equal keys in
\* enumeration order: one more than the snapshots with a larger key, or with
\* the same key and an earlier place
RankOf(ps, key, j) ==
    1 + Cardinality({ m \in 1..Len(ps) :
                        \/ KeyOf(ps[m], key) > KeyOf(ps[j], key)
                        \/ (KeyOf(ps[m], key) = KeyOf(ps[j], key) /\ m < j) })

IsTop(selected, ps, key, n) ==
    /\ Len(selected) = Min(n, Len(ps))
    /\ \A j \in 1..Len(ps) :
         RankOf(ps, key, j) <= n => selected[RankOf(ps, key, j)] = ps[j]

CpuPercents(ps) == [i \in 1..Len(ps) |-> ps[i].cpu_percent]
Pids(ps) == [i \in 1..Len(ps) |-> ps[i].pid]

\* C4: for each of the keys cpu_percent, mem_rss, disk_io_total the selection is
\* the first min(N, len) snapshots in descending key order, equal keys in their
\* enumeration order; CPU percents [10, 55, 55, 2, 30] with N = 3 select the
\* first-seen 55, the second-seen 55, then 30; the input sequence is unchanged.
C4_Ranking ==
    pc = "rank_return" =>
        /\ IsTop(top.cpu, arg.procs, "cpu_percent", arg.n)
        /\ IsTop(top.mem, arg.procs, "mem_rss", arg.n)
        /\ IsTop(top.disk, arg.procs, "disk_io_total", arg.n)
        /\ all_procs = arg.procs
        /\ (CpuPercents(arg.procs) = <<10, 55, 55, 2, 30>> /\ arg.n = 3
              => Pids(top.cpu) = <<2, 3, 5>>)

C4_Witness ==
    /\ pc = "rank_return"
    /\ CpuPercents(arg.procs) = <<10, 55, 55, 2, 30>>
    /\ arg.n = 3
    /\ Pids(top.cpu) = <<2, 3, 5>>

\* C9: the disk read and write rates are the byte deltas, second snapshot minus
\* first; the network rates are the byte deltas times 8 divided by 1,000,000;
\* {read=100, write=50} then {read=180, write=95} give 80 and 45 bytes/s; byte
\* deltas 125000 and 250000 give 1 and 2 Mbps.
C9_Rates ==
    pc = "rates_return" =>
        LET sent == arg.new_net.bytes_sent - arg.last_net.bytes_sent
            recv == arg.new_net.bytes_recv - arg.last_net.bytes_recv
        IN /\ io_rates.disk_read_s + arg.last_disk.read_bytes = arg.new_disk.read_bytes
           /\ io_rates.disk_write_s + arg.last_disk.write_bytes = arg.new_disk.write_bytes
           /\ io_rates.mbps_sent[3] > 0
           /\ io_rates.mbps_sent[2] * 1000000 = sent * 8 * io_rates.mbps_sent[3]
           /\ io_rates.mbps_recv[3] > 0
           /\ io_rates.mbps_recv[2] * 1000000 = recv * 8 * io_rates.mbps_recv[3]
           /\ (arg.last_disk = [read_bytes |-> 100, write_bytes |-> 50]
                 /\ arg.new_disk = [read_bytes |-> 180, write_bytes |-> 95]
                 => io_rates.disk_read_s = 80 /\ io_rates.disk_write_s = 45)
           /\ (sent = 125000 => io_rates.mbps_sent = <<"float", 1, 1>>)
           /\ (recv = 250000 => io_rates.mbps_recv = <<"float", 2, 1>>)

C9_Witness ==
    /\ pc = "rates_return"
    /\ arg.last_disk = [read_bytes |-> 100, write_bytes |-> 50]
    /\ arg.new_disk = [read_bytes |-> 180, write_bytes |-> 95]
    /\ arg.new_net.bytes_sent - arg.last_net.bytes_sent = 125000
    /\ arg.new_net.bytes_recv - arg.last_net.bytes_recv = 250000
    /\ io_rates = [disk_read_s |-> 80, disk_write_s |-> 45,
                   mbps_sent |-> <<"float", 1, 1>>, mbps_recv |-> <<"float", 2, 1>>]

\* pids of the processes of the host whose read gave one of `kinds`
PidsReading(kinds) == { i \in 1..Len(host.procs) : host.procs[i] \in kinds }
PidSet(ps) == { ps[i].pid : i \in 1..Len(ps) }

\* C5: a per-process read failure (vanished, access denied, zombie, also when
\* only some fields of the process come back unreadable) is recovered inside
\* get_all_processes_info: the process whose read raised is left out, every
\* process read in full is returned, no exception of the enumeration reaches the
\* handlers of run_spm, and the cycle goes on to the ranking.
C5_ReadFailureRecovered ==
    /\ raised.at = "processes" => raised.type \in { "KeyboardInterrupt", "OSError" }
    /\ pc = "rank" =>
          /\ PidsReading({"ok"}) \subseteq PidSet(all_procs)
          /\ PidsReading({"NoSuchProcess", "AccessDenied", "ZombieProcess"})
                \cap PidSet(all_procs) = {}

\* what the lookup is meant to give: the first reading of coretemp when that
\* group has one, else the first reading of the first group that has one, else
\* 'N/A'
FirstReading(groups) ==
    LET usable == SelectSeq(groups, LAMBDA g : g[2] # <<>>)
        core == SelectSeq(usable, LAMBDA g : g[1] = "coretemp")
    IN IF core # <<>> THEN core[1][2][1].current
       ELSE IF usable # <<>> THEN usable[1][2][1].current
       ELSE NA

\* C6: the sample's temperature is the first reading of the coretemp group when
\* it exists with a reading, else the first reading of the first available
\* group, and 'N/A' only when there is no usable sensor data; the lookup never
\* ends the cycle.
C6_TemperatureSelection ==
    /\ raised.at # "temperature" \/ raised.type \in { "KeyboardInterrupt", "OSError" }
    /\ pc = "populate" =>
          cpu_temp = (IF host.sensors.supported THEN FirstReading(host.sensors.groups)
                      ELSE NA)

\* a failure has just left the step at hand
Fails == raised = NoException /\ raised'.type \notin { "none", "KeyboardInterrupt" }

\* C7: a failure other than a user interruption that leaves a step of a cycle
\* reaches the handler around the loop, which prints the generic error message
\* and ends the run: the loop is not re-entered, the cycle is not retried, and
\* the log gets no further row.
C7_FailureEndsRun ==
    /\ [][ (pc \in TryPcs /\ Fails)
           => /\ pc' = "exited"
              /\ outcome' = "error"
              /\ console' = Append(console, ErrorMessage(raised'.type))
              /\ logFile' = logFile
              /\ cycle' = cycle ]_vars
    /\ [](outcome = "error"
            => (pc = "exited" /\ Farewell \notin { console[i] : i \in 1..Len(console) }))
    /\ [][ (outcome = "error" /\ outcome' = "error")
           => (logFile' = logFile /\ cycle' = cycle) ]_vars

C7_Witness ==
    /\ outcome = "error"
    /\ raised = [type |-> "OSError", at |-> "log_to_csv"]
    /\ pc = "exited"
    /\ cycle = 2

Lines == { console[i] : i \in 1..Len(console) }
Interrupted == raised.type = "KeyboardInterrupt"

\* C8 as stated: a user interruption at any point after run_spm starts, the
\* on-entry steps included, ends the run with the farewell message and without
\* the error message, and no further cycle begins.
C8_AsStated ==
    Interrupted =>
        /\ pc = "exited"
        /\ outcome = "stopped"
        /\ Farewell \in Lines
        /\ ErrorMessage("KeyboardInterrupt") \notin Lines

\* C8 amended: a user interruption arriving inside the loop (the measurement
\* window, any step of a cycle, the end-of-cycle sleep) ends the run with the
\* farewell message as the last line, without the error message, and no further
\* cycle begins; one arriving during setup_csv or the priming call, which are
\* outside the try statement, leaves run_spm unhandled: no farewell is printed.
C8_InterruptInLoopIsClean ==
    Interrupted =>
        /\ pc = "exited"
        /\ ErrorMessage("KeyboardInterrupt") \notin Lines
        /\ IF raised.at \in TryPcs
           THEN /\ outcome = "stopped"
                /\ console # <<>>
                /\ console[Len(console)] = Farewell
           ELSE /\ raised.at \in EntryPcs
                /\ outcome = "uncaught"
                /\ Farewell \notin Lines

C8_Witness ==
    /\ Interrupted
    /\ raised.at = "get_io_rates"
    /\ outcome = "stopped"
    /\ cycle = 2
    /\ console[Len(console)] = Farewell

\* the position that follows p when the step at p returns
SuccPc(p) ==
    CASE p = "idle" -> "setup_csv"
      [] p = "exited" -> "setup_csv"
      [] p = "setup_csv" -> "prime"
      [] p = "prime" -> "loop"
      [] p = "loop" -> "get_io_rates"
      [] p = "get_io_rates" -> "temperature"
      [] p = "temperature" -> "populate"
      [] p = "populate" -> "processes"
      [] p = "processes" -> "rank"
      [] p = "rank" -> "flatten"
      [] p = "flatten" -> "log_to_csv"
      [] p = "log_to_csv" -> "render"
      [] p = "render" -> "sleep"
      [] p = "sleep" -> "loop"

RecordingPcs == { "flatten", "log_to_csv" }

\* the cycle at hand is in the recording step, or the run ended there
InRecording ==
    \/ pc \in RecordingPcs
    \/ pc = "exited" /\ raised.at \in RecordingPcs

\* C10 as stated: the rows added by the run equal the cycles that reached the
\* recording step (compared whenever no cycle is in the middle of it).
C10_AsStated ==
    pc \notin RecordingPcs => calls.rows = calls.recording

\* C10 amended: setup_csv and the priming cpu_percent call happen exactly once
\* each, before the first collection; the steps of a cycle follow one another
\* in the order collect, rank, record, render, sleep and then the next cycle
\* starts; the log grows only in log_to_csv, by exactly one row, after the
\* ranking and before the rendering of the same cycle; the rows added by the
\* run equal the cycles whose recording step completed: the cycles that reached
\* recording, less the one that is still in it or that was interrupted or
\* failed in it before the row was written.
C10_LoopOrder ==
    /\ [](/\ pc = "setup_csv" => calls.setup_csv = 0 /\ calls.prime = 0
          /\ pc = "prime" => calls.setup_csv = 1 /\ calls.prime = 0
          /\ pc \in TryPcs => calls.setup_csv = 1 /\ calls.prime = 1)
    /\ [][ (pc' # pc)
           => (pc' = SuccPc(pc) \/ (pc' = "exited" /\ raised'.type # "none")) ]_vars
    /\ [][ (pc \in TryPcs \cup { "exited" } /\ logFile' # logFile)
           => /\ pc = "log_to_csv" /\ pc' = "render"
              /\ Len(logFile') = Len(logFile) + 1
              /\ SubSeq(logFile', 1, Len(logFile)) = logFile
              /\ calls'.rows = calls.rows + 1
              /\ top' = top ]_vars
    /\ [][ (pc \in TryPcs /\ calls'.rows # calls.rows)
           => Len(logFile') = Len(logFile) + 1 ]_vars
    /\ [][ (pc = "log_to_csv" /\ pc' = "render") => Len(logFile') = Len(logFile) + 1 ]_vars
    /\ [](pc \in TryPcs \cup { "exited" }
            => calls.rows = calls.recording - (IF InRecording THEN 1 ELSE 0))

C10_Witness ==
    /\ pc = "exited"
    /\ raised.at = "flatten"
    /\ calls.recording = 2
    /\ calls.rows = 1

====
